---- MODULE Spec2Model ----
(***************************************************************************)
(* A model of Neo4jLiaison (src/src/neo4j_liaison.py): the wrapper object  *)
(* (its driver and its saved session), the Cypher text each method builds, *)
(* the parameters it binds, what it hands to the driver's Session.run and  *)
(* how it reshapes the records that come back.  The graph database behind  *)
(* the driver is modelled as an ordered collection of labelled nodes with  *)
(* property maps, and the driver as a recogniser of the Cypher texts the   *)
(* wrapper can send plus their meaning on that collection.                 *)
(***************************************************************************)
EXTENDS Integers, Sequences, FiniteSets, TLC

(***************************************************************************)
(* Bounds of the model.                                                    *)
(***************************************************************************)
MaxNodes == 2       \* nodes the database holds when the data methods are studied
MaxFewNodes == 1    \* nodes it holds when every method is available
MaxSessions == 2    \* sessions the driver hands out
MaxRels == 2        \* relationships the database holds

(***************************************************************************)
(* The data the callers use.                                               *)
(***************************************************************************)
Labels == {"Person", "Test"}
Keys == {"id", "name"}
Values == {1, 2}
RelNames == {"HAS"}

\* Python's None and Cypher's null: a value no attribute holds.
Null == 0

VARIABLES
    driver,      \* self._driver: "None", or "open" once GraphDatabase.driver returned
    cur,         \* self._current_session: 0 for None, else the session's identity
    nsessions,   \* how many times the driver's session() has been invoked
    newCalled,   \* has new_session been called explicitly by the caller
    lastNew,     \* the session returned by the most recent new_session (0: none)
    db,          \* the database: its nodes in the order the server returns them
    rels,        \* the relationships, in order of creation: [from, name, to]
                 \* over positions of db
    last,        \* the last call: its arguments, what it sent, and its outcome
    driverClosed,  \* has the driver's close() been invoked
    withSess,    \* the session whose "with" block the caller is in (0: none)
    closedSess,  \* the sessions whose close() has been invoked
    clients      \* the callers that allocate an id and then create a node with it

\* The driver's and the sessions' own state, and the caller's "with" block.
connVars == <<driverClosed, withSess, closedSess>>

vars == <<driver, cur, nsessions, newCalled, lastNew, db, rels, last, connVars, clients>>

(***************************************************************************)
(* Nodes, and Python dictionaries.                                         *)
(***************************************************************************)
PropMaps == UNION {[S -> Values] : S \in SUBSET Keys}

\* The key orders a dictionary over Keys can have.
KeyOrders == {<<>>, <<"id">>, <<"name">>, <<"id", "name">>, <<"name", "id">>}

Range(s) == {s[i] : i \in 1..Len(s)}

\* A dictionary of attributes: its keys in insertion order, and their values.
ItemDicts == {[keys |-> ks, val |-> f] : ks \in KeyOrders, f \in PropMaps}

WellFormedItems == {it \in ItemDicts : DOMAIN it.val = Range(it.keys)}

EmptyDict == [k \in {} |-> Null]

(***************************************************************************)
(* The driver and the database behind it.  Session.run receives a Cypher   *)
(* text and a parameter dictionary.  The texts it understands here are the *)
(* ones the wrapper's methods produce and the ones the callers of the      *)
(* generic query methods pass in (the docstrings' examples); any other     *)
(* text is a syntax error, which run raises.                               *)
(***************************************************************************)

\* A WHERE condition on one attribute, as callers of
\* retrieve_node_by_label_and_clause write it.
WhereClause(k, v) == "n." \o k \o " = " \o ToString(v)

\* A property-map entry, as callers of next_available_id write it.
MapClause(k, v) == k \o ": " \o ToString(v)

WhereClauses == {WhereClause(k, v) : k \in Keys, v \in Values}
MapClauses == {MapClause(k, v) : k \in Keys, v \in Values}

\* The attribute list of a CREATE: "k1: $k1, k2: $k2".
RECURSIVE CypherMap(_)
CypherMap(ks) ==
    IF Len(ks) = 0 THEN ""
    ELSE IF Len(ks) = 1 THEN ks[1] \o ": $" \o ks[1]
    ELSE ks[1] \o ": $" \o ks[1] \o ", " \o CypherMap(Tail(ks))

\* The queries the server is asked to run, as syntax trees.
Queries ==
    [kind : {"match_id"}, label : Labels]
    \cup [kind : {"match_where"}, label : Labels, key : Keys, value : Values]
    \cup [kind : {"children"}, label : Labels, rel : RelNames]
    \cup [kind : {"max_id"}, label : Labels]
    \cup [kind : {"max_id_map"}, label : Labels, key : Keys, value : Values]
    \cup [kind : {"create"}, label : Labels, keys : KeyOrders]
    \cup [kind : {"set_attr"}, label : Labels, key : Keys]
    \cup [kind : {"fields"}, label : Labels]
    \cup [kind : {"fields_where"}, label : Labels]
    \cup [kind : {"relate"}, label : Labels, child : Labels, rel : RelNames]

\* The Cypher text of a query.
CypherText(q) ==
    CASE q.kind = "match_id" ->
           "MATCH (n:" \o q.label \o " {id:$id}) RETURN n"
      [] q.kind = "match_where" ->
           "MATCH (n:" \o q.label \o ") WHERE " \o WhereClause(q.key, q.value)
               \o " RETURN n"
      [] q.kind = "children" ->
           "MATCH (n:" \o q.label \o " {id:$id})-[:" \o q.rel \o "]->(m) RETURN m"
      [] q.kind = "max_id" ->
           "MATCH (n:" \o q.label \o ") RETURN 1+max(n.id) AS max_value"
      [] q.kind = "max_id_map" ->
           "MATCH (n:" \o q.label \o " {" \o MapClause(q.key, q.value)
               \o "}) RETURN 1+max(n.id) AS max_value"
      [] q.kind = "create" ->
           "CREATE (:" \o q.label \o " {" \o CypherMap(q.keys) \o "})"
      [] q.kind = "set_attr" ->
           "MATCH (n:" \o q.label \o ") WHERE n.id = $node_id SET n." \o q.key
               \o " = $new_attribute_value"
      [] q.kind = "fields" ->
           "MATCH (n:" \o q.label \o ") RETURN n.id AS id, n.name AS name"
      [] q.kind = "fields_where" ->
           "MATCH (n:" \o q.label
               \o ") WHERE n.name = $name RETURN n.id AS id, n.name AS name"
      [] q.kind = "relate" ->
           "MATCH (a:" \o q.label \o " {id:$from}), (b:" \o q.child
               \o " {id:$to}) CREATE (a)-[:" \o q.rel \o "]->(b)"

CypherTexts == {CypherText(q) : q \in Queries}

\* The server's parser: the query a text denotes.
ParseTable == [t \in CypherTexts |-> CHOOSE q \in Queries : CypherText(q) = t]

\* The parameters a query needs bound.
Needs(q) ==
    CASE q.kind \in {"match_id", "children"} -> {"id"}
      [] q.kind = "create" -> Range(q.keys)
      [] q.kind = "set_attr" -> {"node_id", "new_attribute_value"}
      [] q.kind = "fields_where" -> {"name"}
      [] q.kind = "relate" -> {"from", "to"}
      [] OTHER -> {}

Has(node, k, v) == k \in DOMAIN node.props /\ node.props[k] = v

\* n.k of a node: null when the node has no such property.
Prop(node, k) == IF k \in DOMAIN node.props THEN node.props[k] ELSE Null

Max(S) == CHOOSE m \in S : \A x \in S : x <= m

\* The positions of the nodes of d, in order.
Indexes(d) == [i \in 1..Len(d) |-> i]

\* MATCH (n:label): the positions of the nodes with the label, in order.
MatchLabel(d, label) == SelectSeq(Indexes(d), LAMBDA i : d[i].label = label)

\* MATCH (n:label {k: v}), or MATCH (n:label) WHERE n.k = v.
MatchLabelProp(d, label, k, v) ==
    SelectSeq(Indexes(d), LAMBDA i : d[i].label = label /\ Has(d[i], k, v))

\* One record per listed node, with the node under the given key.
NodeRecords(d, ps, key) ==
    [j \in 1..Len(ps) |-> <<[key |-> key, value |-> d[ps[j]]]>>]

\* The records of "RETURN n.id AS id, n.name AS name".
FieldRecords(d, ps) ==
    [j \in 1..Len(ps) |->
        <<[key |-> "id", value |-> Prop(d[ps[j]], "id")],
          [key |-> "name", value |-> Prop(d[ps[j]], "name")]>>]

\* 1+max(n.id) over the listed nodes: null when none of them has an id.
MaxPlusOne(d, ps) ==
    LET ids == {d[ps[j]].props["id"] : j \in {j \in 1..Len(ps) : "id" \in DOMAIN d[ps[j]].props}}
    IN  IF ids = {} THEN Null ELSE 1 + Max(ids)

\* The matches of "(n:label {id:$id})-[:rel]->(m)": one per node n and
\* relationship of n that fit, in order; of each, the position of m.
ChildPositions(d, r, label, idv, rel) ==
    LET pairs == [k \in 1..(Len(d) * Len(r)) |->
                     <<((k - 1) \div Len(r)) + 1, ((k - 1) % Len(r)) + 1>>]
        hit == SelectSeq(pairs, LAMBDA p :
                   /\ d[p[1]].label = label
                   /\ Has(d[p[1]], "id", idv)
                   /\ r[p[2]].from = p[1]
                   /\ r[p[2]].name = rel)
    IN  [j \in 1..Len(hit) |-> r[hit[j][2]].to]

\* What the server does with a parsed query: the records it returns and the
\* database it leaves.
Execute(q, params, d, r) ==
    CASE q.kind = "match_id" ->
           [records |-> NodeRecords(d, MatchLabelProp(d, q.label, "id", params["id"]), "n"),
            db |-> d]
      [] q.kind = "match_where" ->
           [records |-> NodeRecords(d, MatchLabelProp(d, q.label, q.key, q.value), "n"),
            db |-> d]
      [] q.kind = "children" ->
           [records |-> NodeRecords(d,
                            ChildPositions(d, r, q.label, params["id"], q.rel), "m"),
            db |-> d]
      [] q.kind = "max_id" ->
           [records |-> <<<<[key |-> "max_value",
                             value |-> MaxPlusOne(d, MatchLabel(d, q.label))]>>>>,
            db |-> d]
      [] q.kind = "max_id_map" ->
           [records |-> <<<<[key |-> "max_value",
                             value |-> MaxPlusOne(d, MatchLabelProp(d, q.label,
                                                                    q.key, q.value))]>>>>,
            db |-> d]
      [] q.kind = "create" ->
           [records |-> <<>>,
            db |-> Append(d, [label |-> q.label,
                              props |-> [k \in Range(q.keys) |-> params[k]]])]
      [] q.kind = "set_attr" ->
           [records |-> <<>>,
            db |-> [i \in 1..Len(d) |->
                      IF d[i].label = q.label /\ Has(d[i], "id", params["node_id"])
                      THEN [d[i] EXCEPT !.props =
                               [k \in DOMAIN d[i].props \cup {q.key} |->
                                   IF k = q.key THEN params["new_attribute_value"]
                                   ELSE d[i].props[k]]]
                      ELSE d[i]]]
      [] q.kind = "fields" ->
           [records |-> FieldRecords(d, MatchLabel(d, q.label)), db |-> d]
      [] q.kind = "fields_where" ->
           [records |-> FieldRecords(d, MatchLabelProp(d, q.label, "name",
                                                       params["name"])),
            db |-> d]
      [] q.kind = "relate" -> [records |-> <<>>, db |-> d]

\* The relationships the server is left with: CREATE (a)-[:rel]->(b) makes a
\* new relationship for every match of (a, b), whatever relationships there
\* are already.
ExecuteRels(q, params, d, r) ==
    IF q.kind # "relate" THEN r
    ELSE LET as == MatchLabelProp(d, q.label, "id", params["from"])
             bs == MatchLabelProp(d, q.child, "id", params["to"])
         IN  r \o [k \in 1..(Len(as) * Len(bs)) |->
                     [from |-> as[((k - 1) \div Len(bs)) + 1], name |-> q.rel,
                      to |-> bs[((k - 1) % Len(bs)) + 1]]]

\* Session.run(cypher, params): raises when the driver reports a failure
\* (fail: the connection or the server failed), when the text is no query
\* and when a parameter the query names is not bound; otherwise the query's
\* records and effect.  calls counts the invocations of run.
SessionRun(cypher, params, fail, d, r) ==
    IF fail \/ cypher \notin CypherTexts
       \/ ~(Needs(ParseTable[cypher]) \subseteq DOMAIN params)
    THEN [raised |-> TRUE, records |-> <<>>, db |-> d, rels |-> r, calls |-> 1]
    ELSE LET out == Execute(ParseTable[cypher], params, d, r)
         IN  [raised |-> FALSE, records |-> out.records, db |-> out.db,
              rels |-> ExecuteRels(ParseTable[cypher], params, d, r), calls |-> 1]

(***************************************************************************)
(* Python values: what a method returns.                                   *)
(***************************************************************************)
PyNone == [kind |-> "None"]
PyDict(f) == [kind |-> "dict", val |-> f]
PyList(xs) == [kind |-> "list", val |-> xs]
PyInt(n) == [kind |-> "int", val |-> n]
PySession(s) == [kind |-> "Session", val |-> s]
PyResult(records) == [kind |-> "Result", records |-> records]

\* Result.single(): the first record, or None when there is no record.
Single(records) == IF Len(records) = 0 THEN PyNone ELSE [kind |-> "Record", val |-> records[1]]

\* dict(node.items()): the node's property name/value pairs.
NodeToDict(node) == node.props

\* dict(record): each field name mapped to its value.
RecordToDict(record) ==
    [k \in {record[i].key : i \in 1..Len(record)} |->
        record[CHOOSE i \in 1..Len(record) : record[i].key = k].value]

\* tuple(record): the field values in the record's field order.
RecordToTuple(record) == [i \in 1..Len(record) |-> record[i].value]

\* Result.value(field_name): the field's value in each record (None when the
\* record has no such field).
ResultValue(records, field_name) ==
    [j \in 1..Len(records) |->
        IF field_name \in DOMAIN RecordToDict(records[j])
        THEN RecordToDict(records[j])[field_name] ELSE Null]

\* Result.data(): each record as a dictionary, its nodes as dictionaries.
ResultData(records) ==
    [j \in 1..Len(records) |->
        [k \in DOMAIN RecordToDict(records[j]) |->
            NodeToDict(RecordToDict(records[j])[k])]]

\* cypher_dict, when the caller passes None, becomes {}.
DictOrEmpty(cypher_dict) ==
    IF cypher_dict.kind = "None" THEN EmptyDict ELSE cypher_dict.val

(***************************************************************************)
(* The session methods.  Each yields what the call returns or raises and   *)
(* the wrapper's fields after it.                                          *)
(***************************************************************************)
\* new_session without the assignment to _current_session.
NewSessionNotSaved ==
    IF driver = "None"
    THEN [raised |-> TRUE, sess |-> 0, cur |-> cur, n |-> nsessions]
    ELSE [raised |-> FALSE, sess |-> nsessions + 1, cur |-> cur, n |-> nsessions + 1]

NewSession ==
    IF driver = "None"
    THEN [raised |-> TRUE, sess |-> 0, cur |-> cur, n |-> nsessions]
    ELSE [raised |-> FALSE, sess |-> nsessions + 1, cur |-> nsessions + 1,
          n |-> nsessions + 1]

\* get_session without the test of _current_session.
GetSessionAlwaysNew == NewSession

GetSession ==
    IF cur # 0
    THEN [raised |-> FALSE, sess |-> cur, cur |-> cur, n |-> nsessions]
    ELSE NewSession

(***************************************************************************)
(* The Cypher text each method builds from its arguments.                  *)
(***************************************************************************)
CypherRetrieveById(label, id_value) ==
    "MATCH (n:" \o label \o " {id:$id}) RETURN n"

CypherRetrieveByClause(label, clause) ==
    "MATCH (n:" \o label \o ") WHERE " \o clause \o " RETURN n"

CypherChildren(label, id_value, rel_name) ==
    "MATCH (n:" \o label \o " {id:$id})-[:" \o rel_name \o "]->(m) RETURN m"

CypherNextId(label, clause) ==
    IF clause = ""
    THEN "MATCH (n:" \o label \o ") RETURN 1+max(n.id) AS max_value"
    ELSE "MATCH (n:" \o label \o " {" \o clause \o "}) RETURN 1+max(n.id) AS max_value"

\* pair_list joined by ", ": "id: $id, gender: $gender".
RECURSIVE AttributesStr(_)
AttributesStr(keys) ==
    IF Len(keys) = 0 THEN ""
    ELSE IF Len(keys) = 1 THEN keys[1] \o ": $" \o keys[1]
    ELSE keys[1] \o ": $" \o keys[1] \o ", " \o AttributesStr(Tail(keys))

\* The same with the values written into the text.
CypherCreateInlined(label, items) ==
    "CREATE (:" \o label \o " {"
        \o (IF Len(items.keys) = 0 THEN ""
            ELSE items.keys[1] \o ": " \o ToString(items.val[items.keys[1]]))
        \o "})"

CypherCreate(label, items) ==
    "CREATE (:" \o label \o " {" \o AttributesStr(items.keys) \o "})"

\* The same with node_id written into the text.
CypherChangeInlined(label, node_id, attribute_name, new_attribute_value) ==
    "MATCH (n:" \o label \o ") WHERE n.id = " \o ToString(node_id) \o " SET n."
        \o attribute_name \o " = $new_attribute_value"

CypherChange(label, node_id, attribute_name, new_attribute_value) ==
    "MATCH (n:" \o label \o ") WHERE n.id = $node_id SET n." \o attribute_name
        \o " = $new_attribute_value"

(***************************************************************************)
(* The data methods.  Each is given its arguments and whether the driver   *)
(* reports a failure while running the query (fail), and yields            *)
(*   raised: does the call raise; result: what it returns;                 *)
(*   cur, n: the saved session and the count of sessions after it;         *)
(*   sess: the session it ran on (0: none); sent: the text and parameters  *)
(*   handed to run; runs: how many times run was invoked; db, rels: the    *)
(*   database after it.                                                    *)
(***************************************************************************)
Raised(s, sent, runs) ==
    [raised |-> TRUE, result |-> PyNone, cur |-> s.cur, n |-> s.n, sess |-> s.sess,
     sent |-> sent, runs |-> runs, db |-> db, rels |-> rels]

\* sess = self.get_session(); result_obj = sess.run(cypher, params): the
\* outcome with the records of result_obj as its result.  Nothing catches
\* what get_session or run raise.
Query(cypher, params, fail) ==
    LET s == GetSession
    IN  IF s.raised THEN Raised(s, <<>>, 0)
        ELSE LET sent == <<[cypher |-> cypher, params |-> params]>>
                 r == SessionRun(cypher, params, fail, db, rels)
             IN  IF r.raised THEN Raised(s, sent, r.calls)
                 ELSE [raised |-> FALSE, result |-> PyResult(r.records),
                       cur |-> s.cur, n |-> s.n, sess |-> s.sess,
                       sent |-> sent, runs |-> r.calls, db |-> r.db,
                       rels |-> r.rels]

\* What a method returns: what it makes of the records, unless it raised.
Returning(o, value) == IF o.raised THEN o ELSE [o EXCEPT !.result = value]

\* run_query with a second try after a failure reported by run.
run_query_retrying(cypher, cypher_dict, fail) ==
    LET s == GetSession
        params == DictOrEmpty(cypher_dict)
    IN  IF s.raised THEN Raised(s, <<>>, 0)
        ELSE LET sent == <<[cypher |-> cypher, params |-> params]>>
                 r1 == SessionRun(cypher, params, fail, db, rels)
                 r == IF r1.raised
                      THEN [SessionRun(cypher, params, FALSE, db, rels)
                               EXCEPT !.calls = r1.calls + 1]
                      ELSE r1
             IN  IF r.raised THEN Raised(s, sent, r.calls)
                 ELSE [raised |-> FALSE, result |-> PyResult(r.records),
                       cur |-> s.cur, n |-> s.n, sess |-> s.sess,
                       sent |-> sent, runs |-> r.calls, db |-> r.db,
                       rels |-> r.rels]

run_query(cypher, cypher_dict, fail) ==
    Query(cypher, DictOrEmpty(cypher_dict), fail)

\* The reshaping of retrieve_node_by_label_and_id.
NodeOrNone(records) ==
    LET record == Single(records)
    IN  IF record.kind = "None" THEN PyNone
        ELSE PyDict(NodeToDict(record.val[1].value))

\* The same without the test for None: record[0] raises when no node is found.
retrieve_node_unchecked(label, id_value, fail) ==
    LET o == Query(CypherRetrieveById(label, id_value), ("id" :> id_value), fail)
    IN  IF o.raised THEN o
        ELSE IF Len(o.result.records) = 0 THEN [o EXCEPT !.raised = TRUE, !.result = PyNone]
        ELSE [o EXCEPT !.result = NodeOrNone(o.result.records)]

retrieve_node_by_label_and_id(label, id_value, fail) ==
    LET o == Query(CypherRetrieveById(label, id_value), ("id" :> id_value), fail)
    IN  Returning(o, NodeOrNone(o.result.records))

retrieve_node_by_label_and_clause(label, clause, fail) ==
    LET o == Query(CypherRetrieveByClause(label, clause), EmptyDict, fail)
        recs == o.result.records
    IN  Returning(o, PyList([j \in 1..Len(recs) |-> NodeToDict(recs[j][1].value)]))

retrieve_children(label, id_value, rel_name, order, fail) ==
    LET o == Query(CypherChildren(label, id_value, rel_name),
                   ("id" :> id_value) @@ ("rel_name" :> rel_name), fail)
        recs == o.result.records
    IN  Returning(o, PyList([j \in 1..Len(recs) |-> ResultData(recs)[j]["m"]]))

query_list_single_field(field_name, cypher, cypher_dict, fail) ==
    LET o == Query(cypher, DictOrEmpty(cypher_dict), fail)
    IN  Returning(o, PyList(ResultValue(o.result.records, field_name)))

\* The same keeping the first record only.
query_list_first_dict(cypher, cypher_dict, fail) ==
    LET o == Query(cypher, DictOrEmpty(cypher_dict), fail)
        recs == o.result.records
    IN  Returning(o, PyList([j \in 1..(IF Len(recs) = 0 THEN 0 ELSE 1) |->
                                RecordToDict(recs[j])]))

query_list_multiple_fields_dict(cypher, cypher_dict, fail) ==
    LET o == Query(cypher, DictOrEmpty(cypher_dict), fail)
        recs == o.result.records
    IN  Returning(o, PyList([j \in 1..Len(recs) |-> RecordToDict(recs[j])]))

\* The same reading a result that was already consumed.
query_list_consumed(cypher, cypher_dict, fail) ==
    LET o == Query(cypher, DictOrEmpty(cypher_dict), fail)
    IN  Returning(o, PyList(<<>>))

query_list_multiple_fields(cypher, cypher_dict, fail) ==
    LET o == Query(cypher, DictOrEmpty(cypher_dict), fail)
        recs == o.result.records
    IN  Returning(o, PyList([j \in 1..Len(recs) |-> RecordToTuple(recs[j])]))

\* The same returning the greatest id in use, not the one after it.
next_available_id_in_use(label, clause, fail) ==
    LET o == query_list_single_field("max_value", CypherNextId(label, clause),
                                     PyNone, fail)
    IN  IF o.raised THEN o
        ELSE LET result == o.result.val[1]
             IN  [o EXCEPT !.result = IF result = Null THEN PyInt(1)
                                      ELSE PyInt(result - 1)]

\* The same without the default for a query that finds no id.
next_available_id_no_default(label, clause, fail) ==
    LET o == query_list_single_field("max_value", CypherNextId(label, clause),
                                     PyNone, fail)
    IN  IF o.raised THEN o ELSE [o EXCEPT !.result = PyInt(o.result.val[1])]

next_available_id(label, clause, fail) ==
    LET o == query_list_single_field("max_value", CypherNextId(label, clause),
                                     PyNone, fail)
    IN  IF o.raised THEN o
        ELSE LET result == o.result.val[1]
             IN  [o EXCEPT !.result = IF result = Null THEN PyInt(1) ELSE PyInt(result)]

create_node(label, items, fail) ==
    run_query(CypherCreate(label, items), PyDict(items.val), fail)

\* The same with the two bound values exchanged.
change_single_attribute_swapped(label, node_id, attribute_name, new_attribute_value, fail) ==
    LET o == run_query(CypherChange(label, node_id, attribute_name, new_attribute_value),
                       PyDict(("node_id" :> new_attribute_value)
                              @@ ("new_attribute_value" :> node_id)),
                       fail)
    IN  [o EXCEPT !.result = PyNone]

change_single_attribute_by_id(label, node_id, attribute_name, new_attribute_value, fail) ==
    LET o == run_query(CypherChange(label, node_id, attribute_name, new_attribute_value),
                       PyDict(("node_id" :> node_id)
                              @@ ("new_attribute_value" :> new_attribute_value)),
                       fail)
    IN  [o EXCEPT !.result = PyNone]

(***************************************************************************)
(* The calls.  last records the call just made: its arguments, the wrapper *)
(* and the database as they were when it was made, and its outcome; it is  *)
(* "idle" once the caller has taken the outcome, and a call is made by an  *)
(* idle caller.  For a                                                     *)
(* method that builds its query, twin records the text the same method     *)
(* builds, in the same state, for arguments that differ from the call's    *)
(* only in their data values (differs: such arguments exist).              *)
(***************************************************************************)
NoTwin == [differs |-> FALSE, cyphers |-> <<>>]

Twin(differs, o) ==
    [differs |-> differs, cyphers |-> [i \in 1..Len(o.sent) |-> o.sent[i].cypher]]

Start ==
    [op |-> "start", args |-> <<>>, raised |-> FALSE, result |-> PyNone, sess |-> 0,
     sent |-> <<>>, runs |-> 0, fail |-> FALSE, cur0 |-> 0, n0 |-> 0, db0 |-> <<>>,
     twin |-> NoTwin]

Call(op, args, fail, o, twin) ==
    [op |-> op, args |-> args, raised |-> o.raised, result |-> o.result,
     sess |-> o.sess, sent |-> o.sent, runs |-> o.runs, fail |-> fail,
     cur0 |-> cur, n0 |-> nsessions, db0 |-> db, twin |-> twin]

Idle == [Start EXCEPT !.op = "idle"]

\* A data method was called and ended with outcome o.
Invoke(op, args, fail, o, twin) ==
    /\ last.op = "idle"
    /\ cur' = o.cur
    /\ nsessions' = o.n
    /\ db' = o.db
    /\ rels' = o.rels
    /\ last' = Call(op, args, fail, o, twin)
    /\ UNCHANGED <<driver, newCalled, lastNew, connVars>>

\* The same, by a caller that is not in an allocate-then-create sequence.
Apply(op, args, fail, o, twin) ==
    /\ Invoke(op, args, fail, o, twin)
    /\ UNCHANGED clients

\* The texts and parameter dictionaries the callers of the generic query
\* methods pass: a query without parameters (cypher_dict left None), one with
\* its parameter bound, and one whose parameter the caller forgot.
GenericCalls ==
    {[cypher |-> CypherText([kind |-> "fields", label |-> l]), cypher_dict |-> PyNone]
        : l \in Labels}
    \cup {[cypher |-> CypherText([kind |-> "fields_where", label |-> l]),
           cypher_dict |-> PyDict("name" :> v)] : l \in Labels, v \in Values}
    \cup {[cypher |-> CypherText([kind |-> "fields_where", label |-> l]),
           cypher_dict |-> PyNone] : l \in Labels}

\* The texts and parameters of a caller that relates nodes: the wrapper has
\* no method for it, and run_query takes any query.
RelateCalls ==
    {[cypher |-> CypherText([kind |-> "relate", label |-> l, child |-> c, rel |-> r]),
      cypher_dict |-> PyDict(("from" :> a) @@ ("to" :> b))]
        : l \in Labels, c \in Labels, r \in RelNames, a \in Values, b \in Values}

FieldNames == {"id", "name"}
Orders == {"", "name"}

\* __init__: the driver is created, or GraphDatabase.driver raises and the
\* constructor raises in turn, leaving _driver None.
Construct ==
    /\ last.op = "start"
    /\ \E ok \in BOOLEAN :
          /\ driver' = IF ok THEN "open" ELSE "None"
          /\ last' = [Start EXCEPT !.op = "__init__", !.raised = ~ok]
    /\ cur' = 0
    /\ UNCHANGED <<nsessions, newCalled, lastNew, db, rels, connVars, clients>>

\* The caller takes the outcome of the call and is ready for the next one.
Return ==
    /\ last.op \notin {"start", "idle"}
    /\ last' = Idle
    /\ UNCHANGED <<driver, cur, nsessions, newCalled, lastNew, db, rels, connVars, clients>>

new_session ==
    /\ last.op = "idle"
    /\ nsessions < MaxSessions
    /\ LET s == NewSession
       IN  /\ cur' = s.cur
           /\ nsessions' = s.n
           /\ lastNew' = IF s.raised THEN lastNew ELSE s.sess
           /\ last' = Call("new_session", <<>>, FALSE,
                           [raised |-> s.raised,
                            result |-> IF s.raised THEN PyNone ELSE PySession(s.sess),
                            sess |-> s.sess, sent |-> <<>>, runs |-> 0], NoTwin)
    /\ newCalled' = TRUE
    /\ UNCHANGED <<driver, db, rels, connVars, clients>>

\* close(): the driver's close() is invoked when the driver is set.
close ==
    /\ last.op = "idle"
    /\ driverClosed' = (driverClosed \/ driver # "None")
    /\ last' = Call("close", <<>>, FALSE,
                    [raised |-> FALSE, result |-> PyNone, sess |-> 0, sent |-> <<>>,
                     runs |-> 0], NoTwin)
    /\ UNCHANGED <<driver, cur, nsessions, newCalled, lastNew, db, rels, withSess,
                   closedSess, clients>>

\* "with conn.new_session():" is entered: new_session is called and the
\* session it returns is the block's context manager.  When new_session
\* raises, the block is not entered.
WithNewSession ==
    /\ last.op = "idle"
    /\ withSess = 0
    /\ nsessions < MaxSessions
    /\ LET s == NewSession
       IN  /\ cur' = s.cur
           /\ nsessions' = s.n
           /\ lastNew' = IF s.raised THEN lastNew ELSE s.sess
           /\ withSess' = IF s.raised THEN 0 ELSE s.sess
           /\ last' = Call("with_enter", <<>>, FALSE,
                           [raised |-> s.raised,
                            result |-> IF s.raised THEN PyNone ELSE PySession(s.sess),
                            sess |-> s.sess, sent |-> <<>>, runs |-> 0], NoTwin)
    /\ newCalled' = TRUE
    /\ UNCHANGED <<driver, db, rels, driverClosed, closedSess, clients>>

\* The "with" block finishes: the context manager, which is the session,
\* is exited, and a session's exit closes that session.  Nothing of the
\* wrapper is invoked.
WithExit ==
    /\ last.op = "idle"
    /\ withSess # 0
    /\ closedSess' = closedSess \cup {withSess}
    /\ withSess' = 0
    /\ last' = Call("with_exit", <<>>, FALSE,
                    [raised |-> FALSE, result |-> PyNone, sess |-> withSess,
                     sent |-> <<>>, runs |-> 0], NoTwin)
    /\ UNCHANGED <<driver, cur, nsessions, newCalled, lastNew, db, rels, driverClosed,
                   clients>>

get_session ==
    /\ last.op = "idle"
    /\ LET s == GetSession
       IN  /\ cur' = s.cur
           /\ nsessions' = s.n
           /\ last' = Call("get_session", <<>>, FALSE,
                           [raised |-> s.raised,
                            result |-> IF s.raised THEN PyNone ELSE PySession(s.sess),
                            sess |-> s.sess, sent |-> <<>>, runs |-> 0], NoTwin)
    /\ UNCHANGED <<driver, newCalled, lastNew, db, rels, connVars, clients>>

RetrieveNodeByLabelAndId ==
    \E label \in Labels, id_value \in Values, fail \in BOOLEAN :
        \E id2 \in Values \ {id_value} :
            Apply("retrieve_node_by_label_and_id",
                  [label |-> label, id_value |-> id_value], fail,
                  retrieve_node_by_label_and_id(label, id_value, fail),
                  Twin(TRUE, retrieve_node_by_label_and_id(label, id2, fail)))

RetrieveNodeByLabelAndClause ==
    \E label \in Labels, clause \in WhereClauses, fail \in BOOLEAN :
        Apply("retrieve_node_by_label_and_clause",
              [label |-> label, clause |-> clause], fail,
              retrieve_node_by_label_and_clause(label, clause, fail), NoTwin)

RetrieveChildren ==
    \E label \in Labels, id_value \in Values, rel_name \in RelNames,
       order \in Orders, fail \in BOOLEAN :
        \E id2 \in Values \ {id_value} :
            Apply("retrieve_children",
                  [label |-> label, id_value |-> id_value, rel_name |-> rel_name,
                   order |-> order], fail,
                  retrieve_children(label, id_value, rel_name, order, fail),
                  Twin(TRUE, retrieve_children(label, id2, rel_name, order, fail)))

QueryListSingleField ==
    \E field_name \in FieldNames, c \in GenericCalls, fail \in BOOLEAN :
        Apply("query_list_single_field",
              [field_name |-> field_name, cypher |-> c.cypher,
               cypher_dict |-> c.cypher_dict], fail,
              query_list_single_field(field_name, c.cypher, c.cypher_dict, fail),
              NoTwin)

QueryListMultipleFieldsDict ==
    \E c \in GenericCalls, fail \in BOOLEAN :
        Apply("query_list_multiple_fields_dict", c, fail,
              query_list_multiple_fields_dict(c.cypher, c.cypher_dict, fail), NoTwin)

QueryListMultipleFields ==
    \E c \in GenericCalls, fail \in BOOLEAN :
        Apply("query_list_multiple_fields", c, fail,
              query_list_multiple_fields(c.cypher, c.cypher_dict, fail), NoTwin)

NextAvailableId ==
    \E label \in Labels, clause \in {""} \cup MapClauses, fail \in BOOLEAN :
        Apply("next_available_id", [label |-> label, clause |-> clause], fail,
              next_available_id(label, clause, fail), NoTwin)

\* The dictionaries with the same keys in the same order and other values.
OtherItems(items) ==
    {it \in WellFormedItems : it.keys = items.keys /\ it # items}

CreateNodeWithin(cap) ==
    /\ Len(db) < cap
    /\ \E label \in Labels, items \in WellFormedItems, fail \in BOOLEAN :
          \E it2 \in IF OtherItems(items) = {} THEN {items} ELSE OtherItems(items) :
              Apply("create_node", [label |-> label, items |-> items], fail,
                    create_node(label, items, fail),
                    Twin(it2 # items, create_node(label, it2, fail)))

ChangeSingleAttributeById ==
    \E label \in Labels, node_id \in Values, attribute_name \in Keys,
       new_attribute_value \in Values, fail \in BOOLEAN :
        \E d2 \in (Values \X Values) \ {<<node_id, new_attribute_value>>} :
            Apply("change_single_attribute_by_id",
                  [label |-> label, node_id |-> node_id,
                   attribute_name |-> attribute_name,
                   new_attribute_value |-> new_attribute_value], fail,
                  change_single_attribute_by_id(label, node_id, attribute_name,
                                                new_attribute_value, fail),
                  Twin(TRUE, change_single_attribute_by_id(label, d2[1],
                                                           attribute_name, d2[2], fail)))

CreateNode == CreateNodeWithin(MaxNodes)

CreateNodeFew == CreateNodeWithin(MaxFewNodes)

RunQuery ==
    \E c \in GenericCalls, fail \in BOOLEAN :
        Apply("run_query", c, fail, run_query(c.cypher, c.cypher_dict, fail), NoTwin)

\* run_query with a query that relates nodes.
RunQueryRelate ==
    \E c \in RelateCalls, fail \in BOOLEAN :
        LET o == run_query(c.cypher, c.cypher_dict, fail)
        IN  /\ Len(o.rels) <= MaxRels
            /\ Apply("run_query", c, fail, o, NoTwin)

\* The callers that take an id from next_available_id(label) and then call
\* create_node(label, {"id": that id, ...}), on one wrapper.  Of each:
\*   pc: "start", "allocated" (it holds an id) or "created";
\*   label, id: the label it works on and the id it was given;
\*   n: how many nodes the database held when the id was given;
\*   after: had the other caller created its node when the id was given;
\*   pos: the position of the node it created.
Clients == {1, 2}

ClientStart ==
    [pc |-> "start", label |-> "", id |-> Null, n |-> 0, after |-> FALSE, pos |-> 0]

\* The dictionaries a caller passes with its id: the id alone, or with a name.
ClientItems(id) ==
    {[keys |-> <<"id">>, val |-> ("id" :> id)]}
    \cup {[keys |-> <<"id", "name">>, val |-> ("id" :> id) @@ ("name" :> v)]
             : v \in Values}

\* id = conn.next_available_id(label)
Allocate(c) ==
    /\ clients[c].pc = "start"
    /\ \E label \in Labels, fail \in BOOLEAN :
          LET o == next_available_id(label, "", fail)
          IN  /\ Invoke("next_available_id", [label |-> label, clause |-> ""], fail,
                        o, NoTwin)
              /\ clients' =
                    IF o.raised THEN clients
                    ELSE [clients EXCEPT ![c] =
                            [pc |-> "allocated", label |-> label, id |-> o.result.val,
                             n |-> Len(db),
                             after |-> \E e \in Clients \ {c} : clients[e].pc = "created",
                             pos |-> 0]]

\* conn.create_node(label, {"id": id, ...})
CreateAllocated(c) ==
    /\ clients[c].pc = "allocated"
    /\ \E items \in ClientItems(clients[c].id), fail \in BOOLEAN :
          LET o == create_node(clients[c].label, items, fail)
          IN  /\ Invoke("create_node", [label |-> clients[c].label, items |-> items],
                        fail, o, NoTwin)
              /\ clients' =
                    IF o.raised THEN clients
                    ELSE [clients EXCEPT ![c].pc = "created", ![c].pos = Len(o.db)]

Init ==
    /\ driver = "None"
    /\ cur = 0
    /\ nsessions = 0
    /\ newCalled = FALSE
    /\ lastNew = 0
    /\ db = <<>>
    /\ rels = <<>>
    /\ last = Start
    /\ driverClosed = FALSE
    /\ withSess = 0
    /\ closedSess = {}
    /\ clients = [c \in Clients |-> ClientStart]

\* Every method, on a database of few nodes.
Next ==
    \/ Construct
    \/ Return
    \/ close
    \/ new_session
    \/ get_session
    \/ RetrieveNodeByLabelAndId
    \/ RetrieveNodeByLabelAndClause
    \/ RetrieveChildren
    \/ QueryListSingleField
    \/ QueryListMultipleFieldsDict
    \/ QueryListMultipleFields
    \/ NextAvailableId
    \/ CreateNodeFew
    \/ ChangeSingleAttributeById
    \/ RunQuery

Spec == Init /\ [][Next]_vars

\* The data methods, on a database filled by create_node.
NextData ==
    \/ Construct
    \/ Return
    \/ CreateNode
    \/ RetrieveNodeByLabelAndId
    \/ RetrieveNodeByLabelAndClause
    \/ QueryListMultipleFieldsDict
    \/ QueryListMultipleFields
    \/ NextAvailableId
    \/ ChangeSingleAttributeById

SpecData == Init /\ [][NextData]_vars

\* The methods that make nodes, relate them and retrieve the children.
NextChildren ==
    \/ Construct
    \/ Return
    \/ CreateNode
    \/ RunQueryRelate
    \/ RetrieveChildren

SpecChildren == Init /\ [][NextChildren]_vars

\* The documented use of a session in a "with" statement, and close.
NextWith ==
    \/ Construct
    \/ Return
    \/ close
    \/ WithNewSession
    \/ WithExit
    \/ get_session
    \/ QueryListSingleField

SpecWith == Init /\ [][NextWith]_vars

\* Two callers that each allocate an id and create a node with it, in any
\* order of their steps, and another writer of the database.
NextAlloc ==
    \/ Construct
    \/ Return
    \/ CreateNodeFew
    \/ \E c \in Clients : Allocate(c)
    \/ \E c \in Clients : CreateAllocated(c)

SpecAlloc == Init /\ [][NextAlloc]_vars

(***************************************************************************)
(* The properties.                                                         *)
(***************************************************************************)
DataOps ==
    {"retrieve_node_by_label_and_id", "retrieve_node_by_label_and_clause",
     "retrieve_children", "query_list_single_field",
     "query_list_multiple_fields_dict", "query_list_multiple_fields",
     "next_available_id", "create_node", "change_single_attribute_by_id",
     "run_query"}

\* C1: as long as new_session has not been called explicitly, the driver's
\* session() has been invoked at most once; the first get_session or data
\* call on a wrapper whose driver is set invokes it (once) and saves the
\* session, and every later call invokes it no more and runs on that saved
\* session.
C1_SessionCreatedOnce ==
    ~newCalled =>
        /\ nsessions <= 1
        /\ last.op \in DataOps \cup {"get_session"} =>
              /\ driver = "open" =>
                    /\ ~(last.op = "get_session" /\ last.raised)
                    /\ nsessions = 1
                    /\ last.sess = 1
                    /\ cur = 1
              /\ last.n0 = 1 => nsessions = last.n0 /\ last.sess = last.cur0

\* A later call ran on the session the first one created.
C1_Witness ==
    /\ ~newCalled
    /\ last.op = "create_node"
    /\ last.n0 = 1
    /\ last.sess = 1
    /\ nsessions = 1

\* C2: new_session obtains a session from the driver that no earlier call
\* obtained, saves it as the current session and returns it; a get_session
\* after it returns the session of the most recent new_session; with the
\* driver not set, new_session raises and the saved session is what it was.
C2_NewSessionSavesAndReturns ==
    /\ last.op = "new_session" =>
          /\ last.raised <=> driver = "None"
          /\ ~last.raised =>
                /\ last.result.kind = "Session"
                /\ last.result.val > last.n0
                /\ nsessions = last.n0 + 1
                /\ cur = last.result.val
                /\ lastNew = last.result.val
          /\ last.raised => cur = last.cur0 /\ nsessions = last.n0
    /\ (last.op = "get_session" /\ lastNew # 0) =>
          /\ ~last.raised
          /\ last.result.kind = "Session"
          /\ last.result.val = lastNew

\* get_session returned the session of a new_session that replaced a saved one.
C2_Witness ==
    /\ last.op = "get_session"
    /\ ~last.raised
    /\ lastNew = 2
    /\ last.result.val = 2

\* The positions of db0 holding a node with the label and the id.
WithLabelAndId(d, label, idv) ==
    {i \in 1..Len(d) : d[i].label = label /\ "id" \in DOMAIN d[i].props
                       /\ d[i].props["id"] = idv}

\* C3: retrieve_node_by_label_and_id returns the property dictionary of a
\* node with the label and the id when there is one, and None when there is
\* none, without raising (unless the driver reports a failure); it leaves
\* the database as it was.
C3_RetrieveById ==
    last.op = "retrieve_node_by_label_and_id" =>
        LET found == WithLabelAndId(last.db0, last.args.label, last.args.id_value)
        IN  /\ db = last.db0
            /\ (last.sess # 0 /\ ~last.fail) => ~last.raised
            /\ ~last.raised =>
                  /\ found = {} => last.result.kind = "None"
                  /\ found # {} =>
                        /\ last.result.kind = "dict"
                        /\ \E i \in found : last.result.val = last.db0[i].props

\* A node with two attributes was found among two nodes.
C3_Witness ==
    /\ last.op = "retrieve_node_by_label_and_id"
    /\ ~last.raised
    /\ last.result.kind = "dict"
    /\ DOMAIN last.result.val = {"id", "name"}
    /\ Len(last.db0) = 2
    /\ Cardinality(WithLabelAndId(last.db0, last.args.label, last.args.id_value)) = 1

\* The positions of d holding a node with the label that satisfies the
\* property-map clause ("" for none).
WithLabelAndMap(d, label, clause) ==
    {i \in 1..Len(d) :
        /\ d[i].label = label
        /\ \/ clause = ""
           \/ \E k \in Keys, v \in Values :
                 /\ clause = MapClause(k, v)
                 /\ k \in DOMAIN d[i].props
                 /\ d[i].props[k] = v}

\* The ids of the nodes at the given positions that have an id.
IdsAt(d, ps) == {d[i].props["id"] : i \in {i \in ps : "id" \in DOMAIN d[i].props}}

\* C4 as stated: 1 when no node matches the label and clause, otherwise
\* 1 + the greatest id among the matching nodes.
C4_AsStated ==
    (last.op = "next_available_id" /\ ~last.raised) =>
        LET found == WithLabelAndMap(last.db0, last.args.label, last.args.clause)
        IN  /\ last.result.kind = "int"
            /\ found = {} => last.result.val = 1
            /\ found # {} =>
                  \E i \in found :
                      /\ "id" \in DOMAIN last.db0[i].props
                      /\ last.result.val = 1 + last.db0[i].props["id"]
                      /\ \A x \in IdsAt(last.db0, found) : x <= last.db0[i].props["id"]

\* C4: next_available_id returns 1 when no node matching the label and
\* clause has an id attribute, and otherwise 1 + the greatest id among the
\* matching nodes; so the integer returned is greater than the id of every
\* matching node.  The database is left as it was.
C4_NextAvailableId ==
    last.op = "next_available_id" =>
        LET ids == IdsAt(last.db0,
                         WithLabelAndMap(last.db0, last.args.label, last.args.clause))
        IN  /\ db = last.db0
            /\ (last.sess # 0 /\ ~last.fail) => ~last.raised
            /\ ~last.raised =>
                  /\ last.result.kind = "int"
                  /\ ids = {} => last.result.val = 1
                  /\ ids # {} => (last.result.val - 1) \in ids
                  /\ \A x \in ids : x < last.result.val

\* Two nodes match, with different ids, and the greater id plus one came back.
C4_Witness ==
    /\ last.op = "next_available_id"
    /\ ~last.raised
    /\ last.args.clause # ""
    /\ IdsAt(last.db0, WithLabelAndMap(last.db0, last.args.label, last.args.clause))
           = {1, 2}
    /\ last.result.val = 3

QueryBuilders ==
    {"retrieve_node_by_label_and_id", "retrieve_children", "create_node",
     "change_single_attribute_by_id"}

\* C5: a method that builds its query hands the data values to run as bound
\* parameters, and the text it hands over is the text it builds for any
\* other data values with the same label, relationship name and attribute
\* names.
C5_DataValuesAreBound ==
    (last.op \in QueryBuilders /\ last.sess # 0) =>
        /\ Len(last.sent) = 1
        /\ last.twin.cyphers = <<last.sent[1].cypher>>
        /\ last.op = "retrieve_node_by_label_and_id" =>
              last.sent[1].params = ("id" :> last.args.id_value)
        /\ last.op = "retrieve_children" =>
              last.sent[1].params["id"] = last.args.id_value
        /\ last.op = "create_node" =>
              last.sent[1].params = last.args.items.val
        /\ last.op = "change_single_attribute_by_id" =>
              /\ DOMAIN last.sent[1].params = {"node_id", "new_attribute_value"}
              /\ last.sent[1].params["node_id"] = last.args.node_id
              /\ last.sent[1].params["new_attribute_value"]
                     = last.args.new_attribute_value

\* create_node sent its text for a dictionary of two attributes, which was
\* compared with the text for other values of the two.
C5_Witness ==
    /\ last.op = "create_node"
    /\ last.sess # 0
    /\ Len(last.args.items.keys) = 2
    /\ last.twin.differs
    /\ last.twin.cyphers = <<last.sent[1].cypher>>

\* The nodes, in order, that a caller's query selects.
SelectedBy(d, c) ==
    SelectSeq(d, LAMBDA n :
        \/ c.cypher = CypherText([kind |-> "fields", label |-> n.label])
        \/ /\ c.cypher = CypherText([kind |-> "fields_where", label |-> n.label])
           /\ c.cypher_dict.kind = "dict"
           /\ "name" \in DOMAIN n.props
           /\ n.props["name"] = c.cypher_dict.val["name"])

\* The nodes, in order, with the label that satisfy the WHERE clause.
SelectedByClause(d, label, clause) ==
    SelectSeq(d, LAMBDA n :
        /\ n.label = label
        /\ \E k \in Keys, v \in Values :
              /\ clause = WhereClause(k, v)
              /\ k \in DOMAIN n.props
              /\ n.props[k] = v)

\* The value of a returned field n.k: the attribute, or null when absent.
FieldOf(n, k) == IF k \in DOMAIN n.props THEN n.props[k] ELSE Null

\* C6: retrieve_node_by_label_and_clause returns one dictionary per matched
\* node, in order, holding the node's attributes; and
\* query_list_multiple_fields_dict one dictionary per record, in order,
\* mapping each returned field name to its value in the record.
C6_RowsAsMappings ==
    /\ (last.op = "retrieve_node_by_label_and_clause" /\ ~last.raised) =>
          LET sel == SelectedByClause(last.db0, last.args.label, last.args.clause)
          IN  /\ last.result.kind = "list"
              /\ last.result.val = [i \in 1..Len(sel) |-> sel[i].props]
    /\ (last.op = "query_list_multiple_fields_dict" /\ ~last.raised) =>
          LET sel == SelectedBy(last.db0, last.args)
          IN  /\ last.result.kind = "list"
              /\ last.result.val =
                    [i \in 1..Len(sel) |->
                        [k \in {"id", "name"} |-> FieldOf(sel[i], k)]]

\* Two records with different contents came back as two dictionaries.
C6_Witness ==
    /\ last.op = "query_list_multiple_fields_dict"
    /\ ~last.raised
    /\ Len(last.result.val) = 2
    /\ last.result.val[1] # last.result.val[2]
    /\ last.result.val[1]["id"] = 2

\* C7: query_list_multiple_fields returns one tuple per record, in order,
\* holding the record's values in the order of the RETURN fields; a
\* cypher_dict of None reaches run as an empty dictionary.
C7_RowsAsTuples ==
    last.op = "query_list_multiple_fields" =>
        /\ (last.sess # 0 /\ last.args.cypher_dict.kind = "None") =>
              last.sent[1].params = EmptyDict
        /\ (last.sess # 0 /\ last.args.cypher_dict.kind = "dict") =>
              last.sent[1].params = last.args.cypher_dict.val
        /\ ~last.raised =>
              LET sel == SelectedBy(last.db0, last.args)
              IN  /\ last.result.kind = "list"
                  /\ last.result.val =
                        [i \in 1..Len(sel) |->
                            <<FieldOf(sel[i], "id"), FieldOf(sel[i], "name")>>]

\* Two records came back as two tuples, with no cypher_dict given.
C7_Witness ==
    /\ last.op = "query_list_multiple_fields"
    /\ ~last.raised
    /\ last.args.cypher_dict.kind = "None"
    /\ Len(last.result.val) = 2
    /\ last.result.val[1] = <<2, 1>>
    /\ last.result.val[2] = <<1, Null>>

\* The text create_node is to send: "CREATE (:<label> {k1: $k1, k2: $k2})".
CreateText(label, keys) ==
    CASE keys = <<>> -> "CREATE (:" \o label \o " {})"
      [] keys = <<"id">> -> "CREATE (:" \o label \o " {id: $id})"
      [] keys = <<"name">> -> "CREATE (:" \o label \o " {name: $name})"
      [] keys = <<"id", "name">> -> "CREATE (:" \o label \o " {id: $id, name: $name})"
      [] keys = <<"name", "id">> -> "CREATE (:" \o label \o " {name: $name, id: $id})"

\* C8: create_node sends "CREATE (:<label> {k1: $k1, ...})", the keys in
\* dictionary order, with items as the parameters; the database then holds
\* the nodes it held, unchanged and in place, and one more node with the
\* label and exactly the attributes of items.  A call that raises leaves the
\* database as it was.
C8_CreateNode ==
    last.op = "create_node" =>
        /\ last.sess # 0 =>
              /\ last.sent = <<[cypher |-> CreateText(last.args.label,
                                                      last.args.items.keys),
                                params |-> last.args.items.val]>>
              /\ ~last.fail => ~last.raised
        /\ last.raised => db = last.db0
        /\ ~last.raised =>
              /\ last.result.kind = "Result"
              /\ Len(db) = Len(last.db0) + 1
              /\ \A i \in 1..Len(last.db0) : db[i] = last.db0[i]
              /\ db[Len(db)] = [label |-> last.args.label,
                                props |-> last.args.items.val]

\* A node with two attributes was added to a database that held a node.
C8_Witness ==
    /\ last.op = "create_node"
    /\ ~last.raised
    /\ Len(last.db0) = 1
    /\ Len(db) = 2
    /\ last.args.items.keys = <<"name", "id">>
    /\ db[2].props = last.args.items.val

\* C9: change_single_attribute_by_id sets the attribute to the new value in
\* every node with the label and the id, keeps those nodes' other
\* attributes, and leaves every other node, the number of nodes and their
\* order as they were; with no such node, and when it raises, the database
\* is as it was.  It returns None.
C9_ChangeSingleAttribute ==
    last.op = "change_single_attribute_by_id" =>
        /\ last.result.kind = "None"
        /\ (last.sess # 0 /\ ~last.fail) => ~last.raised
        /\ last.raised => db = last.db0
        /\ ~last.raised =>
              /\ Len(db) = Len(last.db0)
              /\ \A i \in 1..Len(last.db0) :
                    IF i \in WithLabelAndId(last.db0, last.args.label, last.args.node_id)
                    THEN /\ db[i].label = last.db0[i].label
                         /\ DOMAIN db[i].props
                                = DOMAIN last.db0[i].props \cup {last.args.attribute_name}
                         /\ db[i].props[last.args.attribute_name]
                                = last.args.new_attribute_value
                         /\ \A k \in DOMAIN last.db0[i].props \ {last.args.attribute_name} :
                                db[i].props[k] = last.db0[i].props[k]
                    ELSE db[i] = last.db0[i]

\* Of two nodes with the same id and different labels, one had its name
\* changed and kept its id; the other is as it was.
C9_Witness ==
    /\ last.op = "change_single_attribute_by_id"
    /\ ~last.raised
    /\ last.args.attribute_name = "name"
    /\ Len(last.db0) = 2
    /\ WithLabelAndId(last.db0, last.args.label, last.args.node_id) = {2}
    /\ last.db0[1].props = last.db0[2].props
    /\ DOMAIN last.db0[2].props = {"id", "name"}
    /\ db[2].props["name"] # last.db0[2].props["name"]
    /\ db[1] = last.db0[1]

\* C10 as stated: a failure the driver reports while running the query is
\* raised, run having been invoked once, and the saved session is the one
\* that was saved before the call.
C10_AsStated ==
    (last.op \in DataOps /\ last.sess # 0 /\ last.fail) =>
        /\ last.raised
        /\ last.runs = 1
        /\ cur = last.cur0

\* C10: a failure the driver reports while running the query is raised; a
\* call that obtains a session invokes run exactly once, a call that does
\* not never invokes it; after a failed call the saved session is the one
\* the query ran on: the session saved before the call when there was one,
\* and otherwise the one get_session obtained and saved for this call.
C10_ErrorsAreRaised ==
    last.op \in DataOps =>
        /\ last.runs = (IF last.sess # 0 THEN 1 ELSE 0)
        /\ (last.sess # 0 /\ last.fail) =>
              /\ last.raised
              /\ cur = last.sess
              /\ last.cur0 # 0 => cur = last.cur0
              /\ last.cur0 = 0 => (cur = last.n0 + 1 /\ nsessions = last.n0 + 1)

\* change_single_attribute_by_id failed on the saved session of an earlier call.
C10_Witness ==
    /\ last.op = "change_single_attribute_by_id"
    /\ last.fail
    /\ last.raised
    /\ last.runs = 1
    /\ last.cur0 = 1
    /\ cur = 1

\* C11 as stated: close() closes the driver whenever the driver is set, and
\* when a "with" block used with the wrapper has finished, the driver's
\* close has been invoked.
C11_AsStated ==
    /\ (last.op = "close" /\ driver # "None") => driverClosed
    /\ last.op = "with_exit" => driverClosed

\* The child nodes of the nodes with the label and the id: the nodes that an
\* outgoing relationship of that name reaches from one of them.
ChildNodes(label, id_value, rel_name) ==
    {rels[k].to : k \in {k \in 1..Len(rels) :
                            /\ db[rels[k].from].label = label
                            /\ Has(db[rels[k].from], "id", id_value)
                            /\ rels[k].name = rel_name}}

\* C12 as stated: retrieve_children returns a list with one dictionary per
\* child node, holding that child's attributes (so the empty list when there
\* is no parent or no child), and the same list whatever the order argument.
C12_AsStated ==
    (last.op = "retrieve_children" /\ ~last.raised) =>
        LET children == ChildNodes(last.args.label, last.args.id_value,
                                   last.args.rel_name)
            list == last.result.val
        IN  /\ last.result.kind = "list"
            /\ \E f \in [1..Len(list) -> children] :
                  /\ \A m \in children : \E j \in 1..Len(list) : f[j] = m
                  /\ \A i, j \in 1..Len(list) : f[i] = f[j] => i = j
                  /\ \A j \in 1..Len(list) : list[j] = db[f[j]].props
            /\ children = {} => list = <<>>
            /\ \A order \in Orders :
                  retrieve_children(last.args.label, last.args.id_value,
                                    last.args.rel_name, order, last.fail).result
                      = last.result

\* Both callers have created their nodes, under one label.
BothCreated(c, e) ==
    /\ c # e
    /\ clients[c].pc = "created"
    /\ clients[e].pc = "created"
    /\ clients[c].label = clients[e].label

\* The id of the node a caller created.
CreatedId(c) == Prop(db[clients[c].pos], "id")

\* C13 as stated: under every order of the four steps, the two nodes created
\* by the allocate-then-create sequences have different ids.
C13_AsStated ==
    \A c, e \in Clients : BothCreated(c, e) => CreatedId(c) # CreatedId(e)

\* C13: each caller's node has the id the caller was given; the two ids
\* differ when one caller was given its id after the other had created its
\* node; and they are equal when each caller was given its id before the
\* other created its node and no node was created between the two
\* allocations.
C13_SequentialIdsDiffer ==
    \A c, e \in Clients : BothCreated(c, e) =>
        /\ CreatedId(c) = clients[c].id
        /\ clients[e].after => CreatedId(c) # CreatedId(e)
        /\ (~clients[c].after /\ ~clients[e].after /\ clients[c].n = clients[e].n)
              => CreatedId(c) = CreatedId(e)

\* C13's case: both nodes exist under one label, the second caller having
\* been given its id after the first one's node was created.
C13_Witness ==
    \E c, e \in Clients :
        /\ BothCreated(c, e)
        /\ clients[e].after
        /\ CreatedId(e) = CreatedId(c) + 1

====
